---- MODULE Spec2Model ----
(***************************************************************************)
(* The Kinesis record router of src/router/lambda_function.py.             *)
(*                                                                         *)
(* Byte strings and text are sequences of character codes (0..255).  The   *)
(* module is read with Python 2.7 semantics, the runtime its first line    *)
(* (from __future__ import print_function) is written for: json.loads      *)
(* takes a byte string, base64.b64decode is binascii.a2b_base64, and       *)
(* str + resp.content is a concatenation of two byte strings.              *)
(***************************************************************************)
EXTENDS Integers, Sequences, FiniteSets, TLC

(***************************************************************************)
(* base64.b64decode (lines 23 and 54): binascii.a2b_base64.                *)
(***************************************************************************)

\* table_a2b_base64: the 6-bit value of an alphabet character ('=' counts
\* as a table entry), -1 for every other character.
b64_value(c) ==
    IF c >= 65 /\ c <= 90 THEN c - 65
    ELSE IF c >= 97 /\ c <= 122 THEN c - 71
    ELSE IF c >= 48 /\ c <= 57 THEN c + 4
    ELSE IF c = 43 THEN 62
    ELSE IF c = 47 THEN 63
    ELSE IF c = 61 THEN 0
    ELSE -1

\* Whether character k of s is a data character: one of the 64 of the
\* alphabet.  The loop of a2b_base64 drops every other character but '='.
b64_data(s, k) == s[k] <= 127 /\ s[k] # 61 /\ b64_value(s[k]) # -1

\* quad_pos when the loop is at character k: the data characters before k,
\* modulo 4.
quad_pos(s, k) == Cardinality({j \in 1..(k - 1) : b64_data(s, j)}) % 4

\* binascii_find_valid(s + k, len - k, 1): the valid character that
\* follows character k of s, or -1.
binascii_find_valid(s, k) ==
    LET after == {j \in (k + 1)..Len(s) : s[j] <= 127 /\ b64_value(s[j]) # -1}
    IN  IF after = {} THEN -1
        ELSE s[CHOOSE j \in after : \A m \in after : j <= m]

\* Whether the loop leaves at character k: a pad in the fourth position of
\* a quad, or in the third when the next valid character is a pad too.  A
\* pad anywhere else is dropped.
b64_pad_ends(s, k) ==
    /\ s[k] = 61
    /\ \/ quad_pos(s, k) = 3
       \/ quad_pos(s, k) = 2 /\ binascii_find_valid(s, k) = 61

\* binascii.a2b_base64, its loop written in closed form: the 6-bit values
\* of the data characters before the pad that ends the input, regrouped
\* into bytes; bits left over when no pad ended the input are "Incorrect
\* padding" (ok = FALSE).
a2b_base64(s) ==
    LET ends == {k \in 1..Len(s) : b64_pad_ends(s, k)}
        stop == IF ends = {} THEN Len(s) + 1
                ELSE CHOOSE k \in ends : \A m \in ends : k <= m
        at == SelectSeq([k \in 1..(stop - 1) |-> k],
                        LAMBDA k : b64_data(s, k))
        v == [m \in 1..Len(at) |-> b64_value(s[at[m]])]
        byte(j) == LET bit == 8 * (j - 1)
                       m == bit \div 6
                   IN  ((v[m + 1] * 64 + v[m + 2]) \div (2 ^ (4 - (bit % 6))))
                       % 256
    IN  [ok |-> ends # {} \/ (6 * Len(at)) % 8 = 0,
         bytes |-> [j \in 1..((6 * Len(at)) \div 8) |-> byte(j)]]

\* base64.b64decode of a byte string: [ok, bytes]; ok = FALSE is the
\* TypeError it raises on incorrect padding.
b64decode(s) == a2b_base64(s)

(***************************************************************************)
(* JSON values: one record shape for every type, so that any two values    *)
(* can be compared.  type is "null", "bool", "num", "str", "arr" or "obj". *)
(***************************************************************************)

JNull == [type |-> "null", n |-> 0, s |-> <<>>, keys |-> <<>>, items |-> <<>>]
JBool(b) == [JNull EXCEPT !.type = "bool", !.n = IF b THEN 1 ELSE 0]
JNum(k) == [JNull EXCEPT !.type = "num", !.n = k]
JStr(cs) == [JNull EXCEPT !.type = "str", !.s = cs]
JArr(vs) == [JNull EXCEPT !.type = "arr", !.items = vs]
\* An object keeps its members in text order; a repeated key is looked up
\* at its last occurrence, as a dict built by successive assignment.
JObj(ks, vs) == [JNull EXCEPT !.type = "obj", !.keys = ks, !.items = vs]

(***************************************************************************)
(* json.loads (lines 31 and 40) on the texts of this model: ASCII bytes    *)
(* and the byte 0xFF (part of no UTF-8 sequence); numbers are integers     *)
(* and strings have no \u escapes.                                         *)
(***************************************************************************)

Fail == [ok |-> FALSE, val |-> JNull, pos |-> 0]
Parsed(v, p) == [ok |-> TRUE, val |-> v, pos |-> p]

RECURSIVE skip_whitespace(_, _)
skip_whitespace(b, idx) ==
    IF idx <= Len(b) /\ b[idx] \in {32, 9, 10, 13}
    THEN skip_whitespace(b, idx + 1)
    ELSE idx

\* Whether the literal lit stands in b at position idx.
match_literal(b, idx, lit) ==
    /\ idx + Len(lit) - 1 <= Len(b)
    /\ SubSeq(b, idx, idx + Len(lit) - 1) = lit

\* The character an escape letter stands for, -1 for an invalid escape.
backslash(c) ==
    IF c \in {34, 92, 47} THEN c
    ELSE IF c = 98 THEN 8
    ELSE IF c = 102 THEN 12
    ELSE IF c = 110 THEN 10
    ELSE IF c = 114 THEN 13
    ELSE IF c = 116 THEN 9
    ELSE -1

\* Whether character k of b, in a string that starts at position idx,
\* follows an odd number of backslashes: it is the second character of an
\* escape.
escaped(b, idx, k) ==
    /\ k > idx
    /\ b[k - 1] = 92
    /\ LET before == {j \in idx..(k - 1) : b[j] # 92}
           last == IF before = {} THEN idx - 1
                   ELSE CHOOSE j \in before : \A m \in before : m <= j
       IN  (k - 1 - last) % 2 = 1

\* scanstring, its loop written in closed form: the string whose opening
\* quote precedes position idx, up to the first quote that is not escaped,
\* escapes replaced; control characters, an invalid escape and an
\* unterminated string are errors.
scanstring(b, idx) ==
    LET quotes == {k \in idx..Len(b) : b[k] = 34 /\ ~escaped(b, idx, k)}
        close == CHOOSE k \in quotes : \A m \in quotes : k <= m
        opens(k) == b[k] = 92 /\ ~escaped(b, idx, k)
        bad(k) == IF escaped(b, idx, k) THEN backslash(b[k]) = -1
                  ELSE b[k] < 32 \/ b[k] > 127
        at == SelectSeq([k \in 1..(close - idx) |-> idx + k - 1],
                        LAMBDA k : ~opens(k))
    IN  IF quotes = {} THEN Fail
        ELSE IF \E k \in idx..(close - 1) : bad(k) THEN Fail
        ELSE IF close > idx /\ opens(close - 1) THEN Fail
        ELSE Parsed(JStr([m \in 1..Len(at) |->
                            IF escaped(b, idx, at[m]) THEN backslash(b[at[m]])
                            ELSE b[at[m]]]),
                    close + 1)

RECURSIVE scan_digits(_, _, _)
\* The digits from position idx on, as a number: [val, pos].
scan_digits(b, idx, acc) ==
    IF idx <= Len(b) /\ b[idx] >= 48 /\ b[idx] <= 57
    THEN scan_digits(b, idx + 1, acc * 10 + (b[idx] - 48))
    ELSE [val |-> acc, pos |-> idx]

\* NUMBER_RE restricted to integers: an optional sign, then 0 or a digit
\* string that does not start with 0.
scan_number(b, idx) ==
    LET neg == idx <= Len(b) /\ b[idx] = 45
        j == IF neg THEN idx + 1 ELSE idx
    IN  IF j > Len(b) \/ b[j] < 48 \/ b[j] > 57 THEN Fail
        ELSE IF b[j] = 48 THEN Parsed(JNum(0), j + 1)
        ELSE LET d == scan_digits(b, j, 0)
             IN  Parsed(JNum(IF neg THEN 0 - d.val ELSE d.val), d.pos)

RECURSIVE scan_once(_, _)
RECURSIVE JSONArray(_, _, _)
RECURSIVE JSONObject(_, _, _, _)

\* The value that starts at position idx.
scan_once(b, idx) ==
    IF idx > Len(b) THEN Fail
    ELSE IF b[idx] = 34 THEN scanstring(b, idx + 1)
    ELSE IF b[idx] = 123
    THEN LET j == skip_whitespace(b, idx + 1)
         IN  IF j <= Len(b) /\ b[j] = 125
             THEN Parsed(JObj(<<>>, <<>>), j + 1)
             ELSE JSONObject(b, j, <<>>, <<>>)
    ELSE IF b[idx] = 91
    THEN LET j == skip_whitespace(b, idx + 1)
         IN  IF j <= Len(b) /\ b[j] = 93
             THEN Parsed(JArr(<<>>), j + 1)
             ELSE JSONArray(b, j, <<>>)
    ELSE IF match_literal(b, idx, <<110, 117, 108, 108>>)
    THEN Parsed(JNull, idx + 4)
    ELSE IF match_literal(b, idx, <<116, 114, 117, 101>>)
    THEN Parsed(JBool(TRUE), idx + 4)
    ELSE IF match_literal(b, idx, <<102, 97, 108, 115, 101>>)
    THEN Parsed(JBool(FALSE), idx + 5)
    ELSE scan_number(b, idx)

\* The elements of an array from position idx on, after those in vs.
JSONArray(b, idx, vs) ==
    LET r == scan_once(b, idx)
        j == skip_whitespace(b, r.pos)
    IN  IF ~r.ok \/ j > Len(b) THEN Fail
        ELSE IF b[j] = 93 THEN Parsed(JArr(Append(vs, r.val)), j + 1)
        ELSE IF b[j] = 44
        THEN JSONArray(b, skip_whitespace(b, j + 1), Append(vs, r.val))
        ELSE Fail

\* The members of an object from position idx on, after those in ks, vs.
JSONObject(b, idx, ks, vs) ==
    IF idx > Len(b) \/ b[idx] # 34 THEN Fail
    ELSE LET k == scanstring(b, idx + 1)
             c == skip_whitespace(b, k.pos)
         IN  IF ~k.ok \/ c > Len(b) \/ b[c] # 58 THEN Fail
             ELSE LET r == scan_once(b, skip_whitespace(b, c + 1))
                      j == skip_whitespace(b, r.pos)
                  IN  IF ~r.ok \/ j > Len(b) THEN Fail
                      ELSE IF b[j] = 125
                      THEN Parsed(JObj(Append(ks, k.val.s), Append(vs, r.val)),
                                  j + 1)
                      ELSE IF b[j] = 44
                      THEN JSONObject(b, skip_whitespace(b, j + 1),
                                      Append(ks, k.val.s), Append(vs, r.val))
                      ELSE Fail

\* JSONDecoder.decode: one value, with nothing but whitespace around it.
\* [ok, val]; ok = FALSE is the ValueError json.loads raises.
json_loads(b) ==
    LET r == scan_once(b, skip_whitespace(b, 1))
    IN  IF r.ok /\ skip_whitespace(b, r.pos) > Len(b)
        THEN [ok |-> TRUE, val |-> r.val]
        ELSE [ok |-> FALSE, val |-> JNull]

(***************************************************************************)
(* The Python operations of _process_record on a JSON value.               *)
(***************************************************************************)

\* bool(v), as in "if not log" (line 36).
truthy(v) ==
    CASE v.type = "null" -> FALSE
      [] v.type \in {"bool", "num"} -> v.n # 0
      [] v.type = "str" -> v.s # <<>>
      [] v.type = "arr" -> v.items # <<>>
      [] OTHER -> v.keys # <<>>

\* d.get(key) of a dict d (line 35): the value, or None.
dict_get(d, key) ==
    LET at == {k \in 1..Len(d.keys) : d.keys[k] = key}
    IN  IF at = {} THEN JNull
        ELSE d.items[CHOOSE k \in at : \A m \in at : m <= k]

\* key in v (line 44): a key of a dict, an element of a list, a substring
\* of a string; ok = FALSE is the TypeError of any other operand.
contains(v, key) ==
    CASE v.type = "obj" ->
           [ok |-> TRUE, found |-> \E k \in 1..Len(v.keys) : v.keys[k] = key]
      [] v.type = "arr" ->
           [ok |-> TRUE,
            found |-> \E k \in 1..Len(v.items) : v.items[k] = JStr(key)]
      [] v.type = "str" ->
           [ok |-> TRUE,
            found |-> \E k \in 1..(Len(v.s) - Len(key) + 1) :
                         SubSeq(v.s, k, k + Len(key) - 1) = key]
      [] OTHER -> [ok |-> FALSE, found |-> FALSE]

\* The texts 'log' and 'trace'.
KEY_LOG == <<108, 111, 103>>
KEY_TRACE == <<116, 114, 97, 99, 101>>

\* try: json.loads(v) / except: return (lines 30-33 and 39-42), of a byte
\* string or of a JSON value.  A value that is not a string makes
\* json.loads raise TypeError, which the bare except catches as well.
\* Mutant: a text that does not parse is kept as a string.
try_loads_keep_text(v) ==
    IF v.type # "str" THEN [ok |-> FALSE, val |-> JNull]
    ELSE IF json_loads(v.s).ok THEN json_loads(v.s)
    ELSE [ok |-> TRUE, val |-> v]

try_loads(v) ==
    IF v.type # "str" THEN [ok |-> FALSE, val |-> JNull] ELSE json_loads(v.s)

\* Mutant: "if log is None" in place of "if not log".
skip_log_only_none(log_value) == log_value.type = "null"

\* if not log: return (lines 36-37).
skip_log(log_value) == ~truthy(log_value)

\* The outcomes of _process_record before it calls a sink.  loads counts
\* the json.loads calls made.
Routed(kind, loads, exc, line, log_value, trace) ==
    [kind |-> kind, loads |-> loads, exc |-> exc, line |-> line,
     log |-> log_value, trace |-> trace]

\* if 'trace' in log: ... else: ... (lines 44-47), has being the value of
\* 'trace' in log: a TypeError when log has no "in", a TypeError at
\* log['trace'] when log is a list or a string, else the call of
\* _process_trace or of _process_log.
_process_record_dispatch(log_value, has) ==
    IF ~has.ok THEN Routed("raise", 2, "TypeError", 44, JNull, JNull)
    ELSE IF has.found /\ log_value.type # "obj"
    THEN Routed("raise", 2, "TypeError", 45, JNull, JNull)
    ELSE IF has.found
    THEN Routed("trace", 2, "", 45, JNull, dict_get(log_value, KEY_TRACE))
    ELSE Routed("log", 2, "", 47, log_value, JNull)

\* The second try block (lines 39-42), inner being its json.loads.
_process_record_inner(inner) ==
    IF ~inner.ok THEN Routed("skip", 2, "", 42, JNull, JNull)
    ELSE _process_record_dispatch(inner.val, contains(inner.val, KEY_TRACE))

\* if not log: return (lines 36-37), then the second decode.
_process_record_log(log_value) ==
    IF skip_log(log_value) THEN Routed("skip", 1, "", 37, JNull, JNull)
    ELSE _process_record_inner(try_loads(log_value))

\* The first try block (lines 30-33), outer being its json.loads, and
\* payload.get('log') (line 35), an AttributeError when the payload is
\* no dict.
_process_record_outer(outer) ==
    IF ~outer.ok THEN Routed("skip", 1, "", 33, JNull, JNull)
    ELSE IF outer.val.type # "obj"
    THEN Routed("raise", 1, "AttributeError", 35, JNull, JNull)
    ELSE _process_record_log(dict_get(outer.val, KEY_LOG))

\* _process_record up to its call of _process_trace or _process_log:
\* "skip" (a return at line 33, 37 or 42), "raise" (an exception no handler
\* of the function catches), "trace" or "log".
_process_record(payload) == _process_record_outer(try_loads(JStr(payload)))

\* data = base64.b64decode(trace) (line 54): of a string its decoding, of
\* any other value a TypeError.
decode_trace(trace) ==
    IF trace.type = "str" THEN b64decode(trace.s)
    ELSE [ok |-> FALSE, bytes |-> <<>>]

(***************************************************************************)
(* Inputs and configuration.                                               *)
(***************************************************************************)

\* The longest batch of one invocation.
MaxBatch == 2

\* record['kinesis']['data'] of the records a batch is drawn from: the
\* base64 encoding of the text in the comment.
KinesisData ==
    {
      \* not json
      <<98, 109, 57, 48, 73, 71, 112, 122, 98, 50, 52, 61>>,
      \* the single byte 0xFF
      <<47, 119, 61, 61>>,
      \* {"log": "{\"trace\":\"AAA=\"}"}
      <<101, 121, 74, 115, 98, 50, 99, 105, 79, 105, 65, 105, 101, 49,
        119, 105, 100, 72, 74, 104, 89, 50, 86, 99, 73, 106, 112, 99, 73,
        107, 70, 66, 81, 84, 49, 99, 73, 110, 48, 105, 102, 81, 61, 61>>,
      \* {"log": "{\"trace\":\"/w==\",\"message\":\"x\"}"}
      <<101, 121, 74, 115, 98, 50, 99, 105, 79, 105, 65, 105, 101, 49,
        119, 105, 100, 72, 74, 104, 89, 50, 86, 99, 73, 106, 112, 99, 73,
        105, 57, 51, 80, 84, 49, 99, 73, 105, 120, 99, 73, 109, 49, 108,
        99, 51, 78, 104, 90, 50, 86, 99, 73, 106, 112, 99, 73, 110, 104,
        99, 73, 110, 48, 105, 102, 81, 61, 61>>,
      \* {"log": "{\"trace\":\"A\"}"}
      <<101, 121, 74, 115, 98, 50, 99, 105, 79, 105, 65, 105, 101, 49,
        119, 105, 100, 72, 74, 104, 89, 50, 86, 99, 73, 106, 112, 99, 73,
        107, 70, 99, 73, 110, 48, 105, 102, 81, 61, 61>>,
      \* {"log": "{\"message\":\"hello\"}"}
      <<101, 121, 74, 115, 98, 50, 99, 105, 79, 105, 65, 105, 101, 49,
        119, 105, 98, 87, 86, 122, 99, 50, 70, 110, 90, 86, 119, 105, 79,
        108, 119, 105, 97, 71, 86, 115, 98, 71, 57, 99, 73, 110, 48, 105,
        102, 81, 61, 61>>,
      \* {"log": "oops"}
      <<101, 121, 74, 115, 98, 50, 99, 105, 79, 105, 65, 105, 98, 50, 57,
        119, 99, 121, 74, 57>>,
      \* {"log": 5}
      <<101, 121, 74, 115, 98, 50, 99, 105, 79, 105, 65, 49, 102, 81, 61,
        61>>,
      \* {"msg": 1}
      <<101, 121, 74, 116, 99, 50, 99, 105, 79, 105, 65, 120, 102, 81, 61,
        61>>,
      \* {"log": null}
      <<101, 121, 74, 115, 98, 50, 99, 105, 79, 105, 66, 117, 100, 87,
        120, 115, 102, 81, 61, 61>>,
      \* {"log": ""}
      <<101, 121, 74, 115, 98, 50, 99, 105, 79, 105, 65, 105, 73, 110, 48,
        61>>,
      \* {"log": 0}
      <<101, 121, 74, 115, 98, 50, 99, 105, 79, 105, 65, 119, 102, 81, 61,
        61>>,
      \* [1]
      <<87, 122, 70, 100>>,
      \* {"log": "7"}
      <<101, 121, 74, 115, 98, 50, 99, 105, 79, 105, 65, 105, 78, 121, 74,
        57>>,
      \* {"log": "[\"trace\"]"}
      <<101, 121, 74, 115, 98, 50, 99, 105, 79, 105, 65, 105, 87, 49, 119,
        105, 100, 72, 74, 104, 89, 50, 86, 99, 73, 108, 48, 105, 102, 81,
        61, 61>>,
      \* {"log": "\"a trace\""}
      <<101, 121, 74, 115, 98, 50, 99, 105, 79, 105, 65, 105, 88, 67, 74,
        104, 73, 72, 82, 121, 89, 87, 78, 108, 88, 67, 73, 105, 102, 81,
        61, 61>>
    }

\* context.aws_request_id of the invocations.
RequestIds == {"req-1", "req-2"}

\* os.getenv('AWS_REGION').
Regions == {"us-east-1", "eu-west-1"}

\* The batches of at most n records.
Batches(n) ==
    UNION {[1..k -> {[kinesis |-> [data |-> d]] : d \in KinesisData}]
           : k \in 0..n}

\* What requests.post does: a response with ok set, a response with ok
\* clear (content is its body, here the text 500), or an exception.
Responses ==
    {[raised |-> FALSE, ok |-> TRUE, content |-> <<>>],
     [raised |-> FALSE, ok |-> FALSE, content |-> <<53, 48, 48>>],
     [raised |-> TRUE, ok |-> FALSE, content |-> <<>>]}

\* What stackdriver.log_struct does: it returns, or it raises.
WriteOutcomes == {"ok", "raised"}

VARIABLES
    event,          \* the argument event: [Records |-> the batch]
    context,        \* the argument context: [aws_request_id |-> ...]
    AWS_REGION,     \* the environment variable read at line 14
    pc,             \* "for", "jaeger", "stackdriver", "log_struct",
                    \* "print", "returned" or "fault"
    i,              \* the position of the for loop in event['Records']
    log,            \* the local log of _process_log
    data,           \* the local data of _process_trace
    calls,          \* the _process_record calls made, in order
    posts,          \* the requests.post calls made, in order
    entries,        \* the stackdriver.log_struct calls made, in order
    stdout,         \* what was printed, in order
    result          \* how the invocation ended

vars == <<event, context, AWS_REGION, pc, i, log, data, calls, posts, entries,
          stdout, result>>

JAEGER_COLLECTOR_URL == "JAEGER_COLLECTOR_URL"
STACKDRIVER_COLLECTOR_URL == "STACKDRIVER_COLLECTOR_URL"

\* Mutant: the region without its provider tag.
REGION_untagged == AWS_REGION

REGION == "aws:" \o AWS_REGION

\* Mutant: a JSON content type.
headers_json == [name |-> "Content-Type", value |-> "application/json"]

\* headers = {'Content-Type': 'application/x-thrift'} (line 53).
headers == [name |-> "Content-Type", value |-> "application/x-thrift"]

\* Resource(type=..., labels=...) (lines 68-76).
Resource(ctx) ==
    [type |-> "generic_task",
     labels |-> [location |-> REGION, namespace |-> "default",
                 job |-> "router", task_id |-> ctx.aws_request_id]]

RECURSIVE str_int(_)
\* str(n) of a natural number: its decimal digits.
str_int(n) ==
    IF n < 10 THEN <<48 + n>> ELSE Append(str_int(n \div 10), 48 + (n % 10))

\* 'Successfully processed {} records.'.format(n) (line 26).
format(n) ==
    <<83, 117, 99, 99, 101, 115, 115, 102, 117, 108, 108, 121, 32, 112, 114,
      111, 99, 101, 115, 115, 101, 100, 32>>
    \o str_int(n)
    \o <<32, 114, 101, 99, 111, 114, 100, 115, 46>>

NoResult == [kind |-> "none", value |-> <<>>, exc |-> "", where |-> "",
             line |-> 0, rec |-> 0]

Init ==
    /\ event \in {[Records |-> b] : b \in Batches(MaxBatch)}
    /\ context \in {[aws_request_id |-> r] : r \in RequestIds}
    /\ AWS_REGION \in Regions
    /\ pc = "for"
    /\ i = 1
    /\ log = JNull
    /\ data = <<>>
    /\ calls = <<>>
    /\ posts = <<>>
    /\ entries = <<>>
    /\ stdout = <<>>
    /\ result = NoResult

(***************************************************************************)
(* Control.  No function of the module has a handler around a sink call    *)
(* or around _process_record (lines 24, 45, 47), so an exception raised    *)
(* below lambda_handler ends the invocation.                               *)
(***************************************************************************)

\* Mutant: lambda_handler catches the exception of a record and goes on.
raise_caught(exc, where, line) ==
    /\ pc' = "for"
    /\ i' = i + 1
    /\ log' = JNull
    /\ data' = <<>>
    /\ result' = result

\* An exception raised at the given line of the given function.
raise(exc, where, line) ==
    /\ pc' = "fault"
    /\ result' = [kind |-> "fault", value |-> <<>>, exc |-> exc,
                  where |-> where, line |-> line, rec |-> i]
    /\ UNCHANGED <<i, log, data>>

\* Mutant: the next iteration skips a record.
next_record_skips ==
    /\ pc' = "for"
    /\ i' = i + 2
    /\ log' = JNull
    /\ data' = <<>>
    /\ result' = result

\* _process_record returns and the for loop takes its next record
\* (line 21).
next_record ==
    /\ pc' = "for"
    /\ i' = i + 1
    /\ log' = JNull
    /\ data' = <<>>
    /\ result' = result

\* Mutant: the number of sink calls made.
summary_of_forwarded == format(Len(posts) + Len(entries))

\* The value returned at line 26.
summary == format(Len(event.Records))

\* Mutant: _process_trace returns after its first send.
after_jaeger_return == next_record

\* After the first send _process_trace goes on to the second (line 60),
\* whatever resp.ok was.
after_jaeger ==
    /\ pc' = "stackdriver"
    /\ UNCHANGED <<i, log, data, result>>

\* if not resp.ok: print(text + resp.content) (lines 57-58 and 61-62).
report(rec, text, resp) ==
    IF resp.ok THEN stdout
    ELSE Append(stdout, [rec |-> rec, text |-> text,
                         val |-> JStr(resp.content)])

(***************************************************************************)
(* The steps of an invocation, cut at the calls that leave the process.    *)
(***************************************************************************)

\* The first lines of _process_trace (53-54), blob being the value of
\* base64.b64decode(trace).
_process_trace_enter(blob) ==
    IF ~blob.ok THEN raise("TypeError", "_process_trace", 54)
    ELSE /\ pc' = "jaeger"
         /\ data' = blob.bytes
         /\ UNCHANGED <<i, log, result>>

\* The call _process_record(payload, context) (line 24), r being what
\* _process_record comes to, up to the first sink call.
_process_record_call(payload, r) ==
    /\ calls' = Append(calls, [payload |-> payload, loads |-> r.loads])
    /\ CASE r.kind = "skip" -> next_record
         [] r.kind = "raise" -> raise(r.exc, "_process_record", r.line)
         [] r.kind = "trace" -> _process_trace_enter(decode_trace(r.trace))
         [] OTHER -> /\ pc' = "log_struct"
                     /\ log' = r.log
                     /\ UNCHANGED <<i, data, result>>

\* payload = base64.b64decode(record['kinesis']['data']) (line 23) and
\* the call of line 24.
lambda_handler_call(payload) ==
    IF ~payload.ok
    THEN /\ raise("TypeError", "lambda_handler", 23)
         /\ UNCHANGED calls
    ELSE _process_record_call(payload.bytes, _process_record(payload.bytes))

\* One iteration of the for loop up to the first sink call: lines 21-24,
\* _process_record (29-47) and the local steps that open _process_trace
\* (53-54) and _process_log (68-76).
lambda_handler_record ==
    /\ pc = "for"
    /\ i <= Len(event.Records)
    /\ lambda_handler_call(b64decode(event.Records[i].kinesis.data))
    /\ UNCHANGED <<event, context, AWS_REGION, posts, entries, stdout>>

\* resp = requests.post(JAEGER_COLLECTOR_URL, ...) and its check
\* (lines 56-58).
_process_trace_jaeger ==
    /\ pc = "jaeger"
    /\ \E resp \in Responses :
          /\ posts' = Append(posts, [rec |-> i, url |-> JAEGER_COLLECTOR_URL,
                                     headers |-> headers, data |-> data,
                                     resp |-> resp])
          /\ IF resp.raised
             THEN /\ raise("RequestException", "_process_trace", 56)
                  /\ UNCHANGED stdout
             ELSE /\ stdout' = report(i, "Failed to POST span to Jaeger: ",
                                      resp)
                  /\ after_jaeger
    /\ UNCHANGED <<event, context, AWS_REGION, calls, entries>>

\* resp = requests.post(STACKDRIVER_COLLECTOR_URL, ...) and its check
\* (lines 60-62), the end of _process_trace.
_process_trace_stackdriver ==
    /\ pc = "stackdriver"
    /\ \E resp \in Responses :
          /\ posts' = Append(posts, [rec |-> i,
                                     url |-> STACKDRIVER_COLLECTOR_URL,
                                     headers |-> headers, data |-> data,
                                     resp |-> resp])
          /\ IF resp.raised
             THEN /\ raise("RequestException", "_process_trace", 60)
                  /\ UNCHANGED stdout
             ELSE /\ stdout' = report(i, "Failed to POST span to Stackdriver: ",
                                      resp)
                  /\ next_record
    /\ UNCHANGED <<event, context, AWS_REGION, calls, entries>>

\* stackdriver.log_struct(log, resource=res) (line 77), on the logger
\* 'aws' of line 17.
_process_log_struct ==
    /\ pc = "log_struct"
    /\ \E outcome \in WriteOutcomes :
          /\ entries' = Append(entries, [rec |-> i, logger |-> "aws",
                                         struct |-> log,
                                         resource |-> Resource(context),
                                         outcome |-> outcome])
          /\ IF outcome = "raised"
             THEN raise("GoogleAPICallError", "_process_log", 77)
             ELSE /\ pc' = "print"
                  /\ UNCHANGED <<i, log, data, result>>
    /\ UNCHANGED <<event, context, AWS_REGION, calls, posts, stdout>>

\* print(log) (line 78), the end of _process_log.
_process_log_print ==
    /\ pc = "print"
    /\ stdout' = Append(stdout, [rec |-> i, text |-> "", val |-> log])
    /\ next_record
    /\ UNCHANGED <<event, context, AWS_REGION, calls, posts, entries>>

\* The for loop is exhausted and lambda_handler returns (line 26).
lambda_handler_return ==
    /\ pc = "for"
    /\ i > Len(event.Records)
    /\ pc' = "returned"
    /\ result' = [NoResult EXCEPT !.kind = "return", !.value = summary]
    /\ UNCHANGED <<event, context, AWS_REGION, i, log, data, calls, posts,
                   entries, stdout>>

Next ==
    \/ lambda_handler_record
    \/ _process_trace_jaeger
    \/ _process_trace_stackdriver
    \/ _process_log_struct
    \/ _process_log_print
    \/ lambda_handler_return

Spec == Init /\ [][Next]_vars

(***************************************************************************)
(* What the records of a batch are, read off the input alone.              *)
(***************************************************************************)

\* For each input: its decoded text, whether the text is JSON (outer_ok)
\* and a JSON object (is_object), its log member (log), whether log is a
\* string of JSON (inner_ok), the inner payload (inner), whether the inner
\* payload is an object (inner_object) with a trace key (has_trace), and
\* the base64 decoding of the trace value (blob_ok, blob).
Shape ==
    [d \in KinesisData |->
        LET text == b64decode(d).bytes
            outer == json_loads(text)
            is_object == outer.ok /\ outer.val.type = "obj"
            lg == IF is_object THEN dict_get(outer.val, KEY_LOG) ELSE JNull
            inner == IF lg.type = "str" THEN json_loads(lg.s)
                     ELSE [ok |-> FALSE, val |-> JNull]
            inner_object == inner.ok /\ inner.val.type = "obj"
            has_trace == inner_object
                         /\ \E k \in 1..Len(inner.val.keys) :
                               inner.val.keys[k] = KEY_TRACE
            trace == IF has_trace THEN dict_get(inner.val, KEY_TRACE)
                     ELSE JNull
            blob == IF trace.type = "str" THEN b64decode(trace.s)
                    ELSE [ok |-> FALSE, bytes |-> <<>>]
        IN  [text |-> text, outer_ok |-> outer.ok, is_object |-> is_object,
             log |-> lg, inner_ok |-> inner.ok, inner |-> inner.val,
             inner_object |-> inner_object, has_trace |-> has_trace,
             blob_ok |-> blob.ok, blob |-> blob.bytes]]

N == Len(event.Records)
Of(k) == Shape[event.Records[k].kinesis.data]

\* The kinds of record the claims speak of.
NotJson(k) == ~Of(k).outer_ok
LogNotJson(k) == Of(k).is_object /\ truthy(Of(k).log) /\ ~Of(k).inner_ok
LogFalsy(k) == Of(k).is_object /\ ~truthy(Of(k).log)
TraceRecord(k) == Of(k).has_trace
LogRecord(k) == Of(k).inner_object /\ ~Of(k).has_trace

\* What was done for record k.
PostsOf(k) == SelectSeq(posts, LAMBDA p : p.rec = k)
EntriesOf(k) == SelectSeq(entries, LAMBDA e : e.rec = k)
PrintsOf(k) == SelectSeq(stdout, LAMBDA o : o.rec = k)
NothingFor(k) == PostsOf(k) = <<>> /\ EntriesOf(k) = <<>> /\ PrintsOf(k) = <<>>

\* _process_record was called for record k / has returned for it / has
\* raised in it; the invocation has ended.
Called(k) == Len(calls) >= k
Finished(k) == i > k
Faulted(k) == result.kind = "fault" /\ result.rec = k
Ended == pc \in {"returned", "fault"}

\* A POST and a structured-log write as the claims describe them.
IsPost(p, url, blob) ==
    /\ p.url = url
    /\ p.data = blob
    /\ p.headers = [name |-> "Content-Type", value |-> "application/x-thrift"]
IsEntry(e, payload) ==
    /\ e.struct = payload
    /\ e.logger = "aws"
    /\ e.resource.type = "generic_task"
    /\ e.resource.labels.task_id = context.aws_request_id
    /\ e.resource.labels.location = "aws:" \o AWS_REGION
    /\ e.resource.labels.namespace = "default"
    /\ e.resource.labels.job = "router"

\* The count a summary text states: the number after its first 23
\* characters, the rest of the text being the fixed words.
SummaryCount(text) ==
    LET d == scan_digits(text, 24, 0)
    IN  IF /\ Len(text) >= 33
           /\ d.pos > 24
           /\ SubSeq(text, 1, 23) \o SubSeq(text, d.pos, Len(text))
                = <<83, 117, 99, 99, 101, 115, 115, 102, 117, 108, 108, 121,
                    32, 112, 114, 111, 99, 101, 115, 115, 101, 100, 32, 32,
                    114, 101, 99, 111, 114, 100, 115, 46>>
        THEN d.val ELSE -1

(***************************************************************************)
(* C1                                                                      *)
(***************************************************************************)

\* C1, as claimed: for a batch of records of the kinds the claim names
\* (malformed, missing log, trace, log), whatever the sinks did, when the
\* invocation has ended _process_record has been called exactly N times,
\* once per record of event['Records'], in order.
C1_AllRecordsCalled ==
    /\ \A k \in 1..N : \/ NotJson(k) \/ LogNotJson(k) \/ LogFalsy(k)
                        \/ TraceRecord(k) \/ LogRecord(k)
    /\ Ended
    => /\ Len(calls) = N
       /\ \A k \in 1..N : calls[k].payload = Of(k).text

\* C1, amended: _process_record is called once per record, in the order of
\* event['Records'], up to and including the first record in which an
\* exception is raised; on a normal return that is all N records, after a
\* fault in record k it is the first k records and no later one.
C1_CallsInOrderUntilFault ==
    /\ Len(calls) <= N
    /\ \A k \in 1..Len(calls) : calls[k].payload = Of(k).text
    /\ pc = "returned" => Len(calls) = N
    /\ pc = "fault" =>
          Len(calls) = IF result.where = "lambda_handler" THEN result.rec - 1
                       ELSE result.rec
    /\ ~Ended => Len(calls) = IF pc = "for" THEN i - 1 ELSE i

\* A batch of two records, one skipped and one whose POST failed, returned
\* from.
C1_Witness ==
    /\ pc = "returned"
    /\ N = 2
    /\ Len(calls) = 2
    /\ \E k \in 1..N : NotJson(k)
    /\ \E q \in 1..Len(posts) : ~posts[q].resp.ok

(***************************************************************************)
(* C2                                                                      *)
(***************************************************************************)

\* C2: the count in the summary lambda_handler returns is the length of
\* the batch, whatever was skipped and whatever POST failed.
C2_SummaryCountsBatch ==
    pc = "returned" => /\ result.kind = "return"
                       /\ SummaryCount(result.value) = N

\* A returned batch of two records of which one was skipped and one had a
\* failed POST: nothing of it was forwarded successfully.
C2_Witness ==
    /\ pc = "returned"
    /\ N = 2
    /\ \E k \in 1..N : LogFalsy(k) \/ NotJson(k)
    /\ Len(posts) = 2
    /\ \A q \in 1..Len(posts) : ~posts[q].resp.ok

(***************************************************************************)
(* C3                                                                      *)
(***************************************************************************)

\* C3, as claimed: a record with a trace key, once dealt with, has made
\* exactly two POSTs, the collector's and then the aggregator's, with the
\* decoded blob and the thrift header, and no structured-log write.
C3_AlwaysTwoPosts ==
    \A k \in 1..N :
        TraceRecord(k) /\ (Finished(k) \/ Faulted(k)) =>
            /\ Len(PostsOf(k)) = 2
            /\ IsPost(PostsOf(k)[1], JAEGER_COLLECTOR_URL, Of(k).blob)
            /\ IsPost(PostsOf(k)[2], STACKDRIVER_COLLECTOR_URL, Of(k).blob)
            /\ EntriesOf(k) = <<>>

\* C3, amended: a record with a trace key makes at most one POST to each
\* URL, the collector's before the aggregator's, each with the base64
\* decoding of the trace value and Content-Type: application/x-thrift, and
\* no structured-log write.  It makes both POSTs when the trace value is
\* valid base64 and the first POST returns a response; it makes none when
\* the value does not decode and only the first when that POST raises, and
\* the invocation then ends in a fault.
C3_TwoPostsUnlessFault ==
    \A k \in 1..N :
        TraceRecord(k) =>
            /\ EntriesOf(k) = <<>>
            /\ Len(PostsOf(k)) <= 2
            /\ Len(PostsOf(k)) >= 1 =>
                  IsPost(PostsOf(k)[1], JAEGER_COLLECTOR_URL, Of(k).blob)
            /\ Len(PostsOf(k)) = 2 =>
                  /\ IsPost(PostsOf(k)[2], STACKDRIVER_COLLECTOR_URL,
                            Of(k).blob)
                  /\ ~PostsOf(k)[1].resp.raised
            /\ Len(PostsOf(k)) >= 1 => Of(k).blob_ok
            /\ Finished(k) => Len(PostsOf(k)) = 2
            /\ Called(k) /\ ~Of(k).blob_ok => Faulted(k)
            /\ Called(k) /\ pc # "jaeger" /\ Of(k).blob_ok =>
                  Len(PostsOf(k)) >= 1
            /\ Len(PostsOf(k)) = 1 /\ ~PostsOf(k)[1].resp.raised =>
                  pc = "stackdriver" /\ i = k
            /\ Len(PostsOf(k)) = 1 /\ PostsOf(k)[1].resp.raised => Faulted(k)

\* A trace record that made its two POSTs and returned.
C3_Witness ==
    \E k \in 1..N :
        /\ TraceRecord(k)
        /\ Finished(k)
        /\ Len(PostsOf(k)) = 2
        /\ PostsOf(k)[2].data = <<0, 0>>

(***************************************************************************)
(* C4                                                                      *)
(***************************************************************************)

\* C4, as claimed: a record whose inner payload has no trace key, once
\* dealt with, has made exactly one structured-log write of the payload,
\* with the resource of the claim, and one standard-output write, and no
\* POST.
C4_AlwaysWriteAndPrint ==
    \A k \in 1..N :
        LogRecord(k) /\ (Finished(k) \/ Faulted(k)) =>
            /\ Len(EntriesOf(k)) = 1
            /\ IsEntry(EntriesOf(k)[1], Of(k).inner)
            /\ Len(PrintsOf(k)) = 1
            /\ PostsOf(k) = <<>>

\* C4, amended: a record whose inner payload is an object without a trace
\* key makes exactly one structured-log write of the full inner payload, on
\* the logger aws, with a resource of type generic_task whose task_id is
\* the request identifier and whose location is "aws:" + the region, and
\* no POST; when the write returns, one standard-output write of the
\* payload follows it; when the write raises, no standard-output write is
\* made and the invocation ends in a fault.
C4_WriteThenPrintUnlessFault ==
    \A k \in 1..N :
        LogRecord(k) =>
            /\ PostsOf(k) = <<>>
            /\ Len(EntriesOf(k)) <= 1
            /\ Len(PrintsOf(k)) <= 1
            /\ Called(k) /\ pc # "log_struct" => Len(EntriesOf(k)) = 1
            /\ Len(EntriesOf(k)) = 1 => IsEntry(EntriesOf(k)[1], Of(k).inner)
            /\ Len(PrintsOf(k)) = 1 =>
                  /\ Len(EntriesOf(k)) = 1
                  /\ EntriesOf(k)[1].outcome = "ok"
                  /\ PrintsOf(k)[1] = [rec |-> k, text |-> "",
                                       val |-> Of(k).inner]
            /\ Finished(k) => Len(PrintsOf(k)) = 1
            /\ Len(EntriesOf(k)) = 1 /\ EntriesOf(k)[1].outcome = "raised" =>
                  Faulted(k) /\ PrintsOf(k) = <<>>
            /\ Len(EntriesOf(k)) = 1 /\ EntriesOf(k)[1].outcome = "ok"
                  /\ PrintsOf(k) = <<>> => pc = "print" /\ i = k

\* A log record written, printed and returned from.
C4_Witness ==
    \E k \in 1..N :
        /\ LogRecord(k)
        /\ Finished(k)
        /\ Len(EntriesOf(k)) = 1
        /\ Len(PrintsOf(k)) = 1

(***************************************************************************)
(* C5                                                                      *)
(***************************************************************************)

\* C5: a record whose text is not JSON, or whose log value is not JSON, is
\* skipped: no POST, no structured-log write and no standard-output write
\* is made for it, no exception is raised in it, and the loop is at the
\* next record, or past the last, as soon as the call has been made.
C5_MalformedSkipped ==
    \A k \in 1..N :
        NotJson(k) \/ LogNotJson(k) =>
            /\ NothingFor(k)
            /\ ~Faulted(k)
            /\ Called(k) => Finished(k)
            /\ Len(calls) = k => pc \in {"for", "returned"} /\ i = k + 1

\* A record whose log value is not JSON, skipped, and the record after it
\* forwarded.
C5_Witness ==
    /\ N = 2
    /\ LogNotJson(1)
    /\ Of(1).log.type = "str"
    /\ Finished(1)
    /\ ~NothingFor(2)

(***************************************************************************)
(* C6                                                                      *)
(***************************************************************************)

\* C6: a record whose JSON object has no log member, or a null, empty or
\* otherwise falsy one, is skipped: nothing is sent or written for it, its
\* call makes the first json.loads only, no exception is raised in it, and
\* the loop is at the next record, or past the last, as soon as the call
\* has been made.
C6_FalsyLogSkipped ==
    \A k \in 1..N :
        LogFalsy(k) =>
            /\ NothingFor(k)
            /\ ~Faulted(k)
            /\ Called(k) => Finished(k) /\ calls[k].loads = 1
            /\ Len(calls) = k => pc \in {"for", "returned"} /\ i = k + 1

\* A record with an empty log string, skipped, and the record after it
\* forwarded.
C6_Witness ==
    /\ N = 2
    /\ LogFalsy(1)
    /\ Of(1).log = JStr(<<>>)
    /\ Finished(1)
    /\ ~NothingFor(2)

(***************************************************************************)
(* C7                                                                      *)
(***************************************************************************)

\* C7: in trace forwarding, when the first send comes back failed (a
\* response that is not ok) the second send is made all the same; a failed
\* send is printed, with the response body; no send is made twice; and
\* after a second send that came back, failed or not, the loop goes on to
\* the next record.
C7_SecondSendAfterFailedFirst ==
    \A q \in 1..Len(posts) :
        LET p == posts[q]
            sent == SelectSeq(posts, LAMBDA o : o.rec = p.rec /\ o.url = p.url)
            told == SelectSeq(stdout, LAMBDA o :
                        /\ o.rec = p.rec
                        /\ o.val = JStr(p.resp.content)
                        /\ o.text = IF p.url = JAEGER_COLLECTOR_URL
                                    THEN "Failed to POST span to Jaeger: "
                                    ELSE "Failed to POST span to Stackdriver: ")
        IN  /\ Len(sent) = 1
            /\ Len(told) = IF ~p.resp.raised /\ ~p.resp.ok THEN 1 ELSE 0
            /\ p.url = JAEGER_COLLECTOR_URL /\ ~p.resp.raised =>
                  \/ pc = "stackdriver" /\ i = p.rec
                        /\ ENABLED _process_trace_stackdriver
                  \/ \E o \in 1..Len(posts) :
                        /\ o > q
                        /\ posts[o].rec = p.rec
                        /\ posts[o].url = STACKDRIVER_COLLECTOR_URL
            /\ p.url = STACKDRIVER_COLLECTOR_URL /\ ~p.resp.raised =>
                  /\ Finished(p.rec)
                  /\ ~Faulted(p.rec)

\* A first send that failed, its second send made, and the next record
\* taken up.
C7_Witness ==
    /\ Len(posts) >= 2
    /\ posts[1].url = JAEGER_COLLECTOR_URL
    /\ ~posts[1].resp.raised /\ ~posts[1].resp.ok
    /\ posts[2].url = STACKDRIVER_COLLECTOR_URL
    /\ posts[2].rec = posts[1].rec
    /\ Called(posts[1].rec + 1)

(***************************************************************************)
(* C8                                                                      *)
(***************************************************************************)

\* C8, as claimed: when the structured-log write of a record raises, the
\* records after it are processed all the same: the invocation does not
\* end before every record has been passed to _process_record.
C8_LaterRecordsProcessed ==
    \A q \in 1..Len(entries) :
        entries[q].outcome = "raised" /\ Ended => Len(calls) = N

\* C8, amended: when the structured-log write of a record raises, the
\* exception leaves lambda_handler as an unhandled fault: the invocation
\* ends at that record, no record after it is passed to _process_record,
\* and nothing is sent or written for any of them.
C8_WriteFailureEndsInvocation ==
    \A q \in 1..Len(entries) :
        entries[q].outcome = "raised" =>
            /\ pc = "fault"
            /\ result.kind = "fault"
            /\ result.where = "_process_log"
            /\ result.rec = entries[q].rec
            /\ q = Len(entries)
            /\ Len(calls) = entries[q].rec
            /\ \A k \in (entries[q].rec + 1)..N : NothingFor(k)

\* A write that raised in the first of two records.
C8_Witness ==
    /\ N = 2
    /\ Len(entries) = 1
    /\ entries[1].rec = 1
    /\ entries[1].outcome = "raised"
    /\ pc = "fault"

(***************************************************************************)
(* C9                                                                      *)
(***************************************************************************)

\* What an invocation has sent, written and printed only grows.
IsPrefix(s, t) == Len(s) <= Len(t) /\ SubSeq(t, 1, Len(s)) = s

\* The outcome of an invocation is one of two, an ended invocation takes
\* no further step, and a sink call that raised has ended it in a fault.
C9_Outcome ==
    /\ pc = "returned" <=> result.kind = "return"
    /\ pc = "fault" <=> result.kind = "fault"
    /\ result.kind \in {"none", "return", "fault"}
    /\ Ended => ~ENABLED Next
    /\ \/ \E q \in 1..Len(posts) : posts[q].resp.raised
       \/ \E q \in 1..Len(entries) : entries[q].outcome = "raised"
       => result.kind = "fault"
    /\ result.kind = "fault" =>
          /\ result.value = <<>>
          /\ result.rec \in 1..N
          /\ \A k \in (result.rec + 1)..N : NothingFor(k)
          /\ \A q \in 1..Len(stdout) :
                stdout[q].rec = result.rec => stdout[q].text # ""
    /\ result.kind = "return" => SummaryCount(result.value) >= 0

\* C9: an invocation ends in a normal return of the summary or in an
\* unhandled fault, never both; after a fault in record k nothing is sent,
\* written or printed for a later record, the payload of record k is not
\* printed and no summary is returned; and what was sent, written and
\* printed before stays as it was, through the fault as through every
\* other step.
C9_ReturnOrFault ==
    /\ []C9_Outcome
    /\ [][/\ IsPrefix(posts, posts')
          /\ IsPrefix(entries, entries')
          /\ IsPrefix(stdout, stdout')
          /\ result.kind # "none" => result' = result]_vars

\* A fault in the second record of a batch, by a write that raised, after
\* the first record was sent to both URLs.
C9_Witness ==
    /\ N = 2
    /\ result.kind = "fault"
    /\ result.rec = 2
    /\ result.where = "_process_log"
    /\ Len(PostsOf(1)) = 2
    /\ PrintsOf(2) = <<>>

(***************************************************************************)
(* C10                                                                     *)
(***************************************************************************)

\* C10, as claimed: decoding and classifying a record never raises: every
\* record is skipped or handed to _process_trace or _process_log, so that
\* an exception can only come from inside one of those two.
C10_ClassifyNeverRaises ==
    result.kind = "fault" => result.where \in {"_process_trace", "_process_log"}

====
